---- MODULE Spec2Model ----
(***************************************************************************)
(* G1BarrierSet (src/hotspot/share/gc/g1/g1BarrierSet.cpp): the SATB       *)
(* pre-write barrier, the card-marking post-write barrier, the bulk        *)
(* invalidate and the thread attach/detach hooks, as a state machine over  *)
(* the card table, the SATB and dirty-card queues and the two shared-queue *)
(* locks.  Every access to shared memory (a card byte, a shared queue, a   *)
(* lock) is a step of its own, so that threads interleave between the read *)
(* of a card, the store of dirty into it and the enqueue of its address.   *)
(***************************************************************************)
EXTENDS Integers, Sequences, FiniteSets, TLC

\* ---------------------------------------------------------------- bounds
NumCards == 2
CardSizeInWords == 2
BufferCapacity == 2
MaxPreCalls == 2
MaxFlips == 1

\* ------------------------------------------------------------ the threads
JavaThreads == {"j1", "j2"}
NonJavaThreads == {"w1", "w2"}
Threads == JavaThreads \cup NonJavaThreads
NoThread == "none"

is_Java_thread(t) == t \in JavaThreads

\* --------------------------------------------------------- the card table
clean_card_val == "clean"
dirty_card_val == "dirty"
g1_young_card_val == "young"
CardVals == {clean_card_val, dirty_card_val, g1_young_card_val}

Cards == 0 .. (NumCards - 1)

HeapWords == NumCards * CardSizeInWords

\* A MemRegion is a start address and a size in words.
is_empty(mr) == mr.word_size = 0
end(mr) == mr.start + mr.word_size
last(mr) == end(mr) - 1
byte_for(p) == p \div CardSizeInWords

\* The regions that lie in the heap.
HeapRegions ==
  {mr \in [start : 0 .. (HeapWords - 1), word_size : 0 .. HeapWords] :
     end(mr) <= HeapWords}

\* ------------------------------------------------------------ references
\* Object references are aligned addresses; a narrowOop slot stores the
\* reference shifted right by the alignment, 0 being null in both encodings.
\* The destination array of write_ref_array_pre, slot by slot:
HeapRefs == <<8, 0, 16>>
Oops == {8, 16}
ArraySlots == 1 .. Len(HeapRefs)

oop_load(narrow, slot) ==
  IF narrow THEN HeapRefs[slot] \div 8 ELSE HeapRefs[slot]
is_null(heap_oop) == heap_oop = 0
decode_not_null(narrow, heap_oop) ==
  IF narrow THEN heap_oop * 8 ELSE heap_oop

VARIABLES
  cards,                  \* the card table: card -> card value
  cards0,                 \* the card table of the initial state (history)
  satb_set_active,        \* JavaThread::satb_mark_queue_set().is_active()
  satb_active,            \* thread->satb_mark_queue().is_active(), per Java thread
  satb_q,                 \* thread->satb_mark_queue(), per Java thread
  shared_satb_q,          \* satb_mark_queue_set().shared_satb_queue()
  satb_completed,         \* completed buffers of the SATB queue set
  dcq,                    \* thread->dirty_card_queue(), per Java thread
  shared_dcq,             \* _dcqs.shared_dirty_card_queue()
  dcq_completed,          \* completed buffers of the dirty card queue set
  Shared_SATB_Q_lock,     \* owner of the lock, or NoThread
  Shared_DirtyCardQ_lock, \* owner of the lock, or NoThread
  tstate,                 \* Java thread: new / attached / detached
  pc,                     \* where each thread is in the barrier code
  frame,                  \* the locals of the call each thread is in
  runnable,               \* the threads of the scenario
  lastOp,                 \* the last call of a single-threaded scenario (history)
  npre,                   \* calls of the pre-write barrier so far
  nflips                  \* changes of the global SATB flag so far

cardVars == <<cards, cards0>>
satbVars == <<satb_set_active, satb_active, satb_q, shared_satb_q, satb_completed>>
dcqVars == <<dcq, shared_dcq, dcq_completed>>
lockVars == <<Shared_SATB_Q_lock, Shared_DirtyCardQ_lock>>
ctlVars == <<tstate, pc, frame, runnable, lastOp, npre, nflips>>
vars == <<cardVars, satbVars, dcqVars, lockVars, ctlVars>>

\* ---------------------------------------------------------------- frames
IdleFrame ==
  [byte |-> 0, first_byte |-> 0, last_byte |-> 0, pre_val |-> 0,
   in_array |-> FALSE, narrow |-> FALSE, dst |-> 0, count |-> 0, i |-> 0,
   fences |-> 0]

NoOp == [op |-> "none", thr |-> NoThread, arg |-> <<>>, done |-> TRUE, res |-> <<>>]

Solo == Cardinality(runnable) = 1

\* A thread may start a call: it belongs to the scenario, is between calls,
\* and, if it is a Java thread, is on the thread list.
CanCall(t) ==
  /\ t \in runnable
  /\ pc[t] = "idle"
  /\ is_Java_thread(t) => tstate[t] = "attached"

\* The history of the single-threaded scenarios: the call that was made
\* last, its arguments, whether it has returned and what it has done.
Called(t, op, arg) ==
  lastOp' = IF Solo
            THEN [op |-> op, thr |-> t, arg |-> arg, done |-> FALSE, res |-> <<>>]
            ELSE lastOp

\* A call that returns in the step that makes it.
CallReturn(t, op, arg, res) ==
  /\ lastOp' = IF Solo
               THEN [op |-> op, thr |-> t, arg |-> arg, done |-> TRUE, res |-> res]
               ELSE lastOp
  /\ UNCHANGED <<pc, frame>>

\* The call thread t is in returns.
Return(t, res) ==
  /\ pc' = [pc EXCEPT ![t] = "idle"]
  /\ frame' = [frame EXCEPT ![t] = IdleFrame]
  /\ lastOp' = IF Solo THEN [lastOp EXCEPT !.done = TRUE, !.res = res] ELSE lastOp

\* ----------------------------------------------------------------- queues
\* PtrQueue::enqueue: append; a buffer that has become full is handed to the
\* completed list of its set and a fresh one started.
PtrQueue_enqueue(q, completed, rec) ==
  LET q2 == Append(q, rec)
  IN  IF Len(q2) >= BufferCapacity
      THEN [buf |-> <<>>, completed |-> Append(completed, q2)]
      ELSE [buf |-> q2, completed |-> completed]

\* PtrQueue::flush: hand the contents to the completed list of the set.
PtrQueue_flush(q, completed) ==
  IF q = <<>>
  THEN [buf |-> <<>>, completed |-> completed]
  ELSE [buf |-> <<>>, completed |-> Append(completed, q)]

RECURSIVE CountIn(_, _)
CountIn(q, rec) ==
  IF q = <<>> THEN 0
  ELSE (IF Head(q) = rec THEN 1 ELSE 0) + CountIn(Tail(q), rec)

RECURSIVE CountInAll(_, _)
CountInAll(bufs, rec) ==
  IF bufs = <<>> THEN 0
  ELSE CountIn(Head(bufs), rec) + CountInAll(Tail(bufs), rec)

RECURSIVE CountInEach(_, _, _)
CountInEach(S, f, rec) ==
  IF S = {} THEN 0
  ELSE LET t == CHOOSE x \in S : TRUE
       IN  CountIn(f[t], rec) + CountInEach(S \ {t}, f, rec)

\* The records of card c in the dirty-card buffers thread-local (d), shared
\* (s) and completed (k).
RecordsIn(d, s, k, rec) ==
  CountInEach(JavaThreads, d, rec) + CountIn(s, rec) + CountInAll(k, rec)

CardRecords(c) == RecordsIn(dcq, shared_dcq, dcq_completed, c)
SatbRecords(v) == RecordsIn(satb_q, shared_satb_q, satb_completed, v)

\* ------------------------------------------------- the post-write barrier
\* dirty_card_queue().enqueue(byte) of a Java thread (lines 110, 140).
EnqueueLocalCard(t, c) ==
  LET r == PtrQueue_enqueue(dcq[t], dcq_completed, c)
  IN  /\ dcq' = [dcq EXCEPT ![t] = r.buf]
      /\ dcq_completed' = r.completed
      /\ UNCHANGED shared_dcq

\* shared_dirty_card_queue()->enqueue(byte) (lines 114, 152).
EnqueueSharedCard(t, c) ==
  LET r == PtrQueue_enqueue(shared_dcq, dcq_completed, c)
  IN  /\ shared_dcq' = r.buf
      /\ dcq_completed' = r.completed
      /\ UNCHANGED dcq

\* write_ref_field_post_slow(byte), lines 101-104: the card is not young on
\* entry (the assert of line 103), and the fence is issued.
write_ref_field_post_slow(t, c) ==
  /\ cards[c] # g1_young_card_val
  /\ pc' = [pc EXCEPT ![t] = "post_check"]
  /\ frame' = [frame EXCEPT ![t].byte = c, ![t].fences = 1]
  /\ Called(t, "write_ref_field_post", <<c>>)

\* G1BarrierSet::write_ref_field_post (inline), the one caller of
\* write_ref_field_post_slow: the filter that keeps young cards from it.
write_ref_field_post(t, c) ==
  /\ CanCall(t)
  /\ IF cards[c] = g1_young_card_val
     THEN CallReturn(t, "write_ref_field_post", <<c>>, <<0>>)
     ELSE write_ref_field_post_slow(t, c)
  /\ UNCHANGED <<cardVars, satbVars, dcqVars, lockVars, tstate, runnable, npre, nflips>>

\* A faulty variant: the test of line 105 inverted.
PostCheck_Inverted(t) ==
  /\ pc[t] = "post_check"
  /\ IF cards[frame[t].byte] = dirty_card_val
     THEN /\ pc' = [pc EXCEPT ![t] = "post_store"]
          /\ UNCHANGED <<frame, lastOp>>
     ELSE Return(t, <<0>>)
  /\ UNCHANGED <<cardVars, satbVars, dcqVars, lockVars, tstate, runnable, npre, nflips>>

\* A faulty variant: no test of the card, every call stores and enqueues.
PostCheck_NoTest(t) ==
  /\ pc[t] = "post_check"
  /\ pc' = [pc EXCEPT ![t] = "post_store"]
  /\ UNCHANGED <<frame, lastOp>>
  /\ UNCHANGED <<cardVars, satbVars, dcqVars, lockVars, tstate, runnable, npre, nflips>>

\* if (*byte != dirty_card_val()), line 105.
PostCheck(t) ==
  /\ pc[t] = "post_check"
  /\ IF cards[frame[t].byte] # dirty_card_val
     THEN /\ pc' = [pc EXCEPT ![t] = "post_store"]
          /\ UNCHANGED <<frame, lastOp>>
     ELSE Return(t, <<0>>)
  /\ UNCHANGED <<cardVars, satbVars, dcqVars, lockVars, tstate, runnable, npre, nflips>>

\* A faulty variant: every thread is sent to the shared queue.
PostStore_AllShared(t) ==
  /\ pc[t] = "post_store"
  /\ cards' = [cards EXCEPT ![frame[t].byte] = dirty_card_val]
  /\ pc' = [pc EXCEPT ![t] = "post_lock"]
  /\ UNCHANGED <<cards0, satbVars, dcqVars, lockVars, tstate, frame, runnable,
                 lastOp, npre, nflips>>

\* *byte = dirty_card_val(), line 106, and the test of the thread's kind,
\* lines 107-108.
PostStore(t) ==
  /\ pc[t] = "post_store"
  /\ cards' = [cards EXCEPT ![frame[t].byte] = dirty_card_val]
  /\ pc' = [pc EXCEPT ![t] = IF is_Java_thread(t) THEN "post_enq" ELSE "post_lock"]
  /\ UNCHANGED <<cards0, satbVars, dcqVars, lockVars, tstate, frame, runnable,
                 lastOp, npre, nflips>>

\* jt->dirty_card_queue().enqueue(byte), lines 109-110.
PostEnqueueLocal(t) ==
  /\ pc[t] = "post_enq"
  /\ EnqueueLocalCard(t, frame[t].byte)
  /\ Return(t, <<1>>)
  /\ UNCHANGED <<cardVars, satbVars, lockVars, tstate, runnable, npre, nflips>>

\* A faulty variant: the shared queue is reached without the lock.
PostLock_NoAcquire(t) ==
  /\ pc[t] = "post_lock"
  /\ pc' = [pc EXCEPT ![t] = "post_enq_shared"]
  /\ UNCHANGED <<cardVars, satbVars, dcqVars, lockVars, tstate, frame,
                 runnable, lastOp, npre, nflips>>

\* MutexLockerEx x(Shared_DirtyCardQ_lock, ...), lines 112-113.
PostLock(t) ==
  /\ pc[t] = "post_lock"
  /\ Shared_DirtyCardQ_lock = NoThread
  /\ Shared_DirtyCardQ_lock' = t
  /\ pc' = [pc EXCEPT ![t] = "post_enq_shared"]
  /\ UNCHANGED <<cardVars, satbVars, dcqVars, Shared_SATB_Q_lock, tstate, frame,
                 runnable, lastOp, npre, nflips>>

\* A faulty variant: the record is appended twice.
PostEnqueueShared_Twice(t) ==
  /\ pc[t] = "post_enq_shared"
  /\ LET r1 == PtrQueue_enqueue(shared_dcq, dcq_completed, frame[t].byte)
         r2 == PtrQueue_enqueue(r1.buf, r1.completed, frame[t].byte)
     IN  /\ shared_dcq' = r2.buf
         /\ dcq_completed' = r2.completed
         /\ UNCHANGED dcq
  /\ pc' = [pc EXCEPT ![t] = "post_unlock"]
  /\ UNCHANGED <<cardVars, satbVars, lockVars, tstate, frame, runnable, lastOp,
                 npre, nflips>>

\* _dcqs.shared_dirty_card_queue()->enqueue(byte), line 114.
PostEnqueueShared(t) ==
  /\ pc[t] = "post_enq_shared"
  /\ EnqueueSharedCard(t, frame[t].byte)
  /\ pc' = [pc EXCEPT ![t] = "post_unlock"]
  /\ UNCHANGED <<cardVars, satbVars, lockVars, tstate, frame, runnable, lastOp,
                 npre, nflips>>

\* A faulty variant: the lock is still held when the call returns.
PostUnlock_KeepsLock(t) ==
  /\ pc[t] = "post_unlock"
  /\ Return(t, <<1>>)
  /\ UNCHANGED <<cardVars, satbVars, dcqVars, lockVars, tstate, runnable,
                 npre, nflips>>

\* The end of the MutexLockerEx scope, line 115, and the return.
PostUnlock(t) ==
  /\ pc[t] = "post_unlock"
  /\ Shared_DirtyCardQ_lock' = NoThread
  /\ Return(t, <<1>>)
  /\ UNCHANGED <<cardVars, satbVars, dcqVars, Shared_SATB_Q_lock, tstate, runnable,
                 npre, nflips>>

\* --------------------------------------------------------------- invalidate
\* A faulty variant: the last card taken from the end of the region, one card back.
invalidate_LastFromEnd(t, mr) ==
  /\ CanCall(t)
  /\ IF is_empty(mr)
     THEN CallReturn(t, "invalidate", <<mr.start, mr.word_size>>, <<>>)
     ELSE /\ pc' = [pc EXCEPT ![t] = "inv_skip"]
          /\ frame' = [frame EXCEPT ![t].first_byte = byte_for(mr.start),
                                    ![t].byte = byte_for(mr.start),
                                    ![t].last_byte = byte_for(end(mr)) - 1]
          /\ Called(t, "invalidate", <<mr.start, mr.word_size>>)
  /\ UNCHANGED <<cardVars, satbVars, dcqVars, lockVars, tstate, runnable, npre, nflips>>

\* invalidate(mr), lines 119-125.
invalidate(t, mr) ==
  /\ CanCall(t)
  /\ IF is_empty(mr)
     THEN CallReturn(t, "invalidate", <<mr.start, mr.word_size>>, <<>>)
     ELSE /\ pc' = [pc EXCEPT ![t] = "inv_skip"]
          /\ frame' = [frame EXCEPT ![t].first_byte = byte_for(mr.start),
                                    ![t].byte = byte_for(mr.start),
                                    ![t].last_byte = byte_for(last(mr))]
          /\ Called(t, "invalidate", <<mr.start, mr.word_size>>)
  /\ UNCHANGED <<cardVars, satbVars, dcqVars, lockVars, tstate, runnable, npre, nflips>>

\* A faulty variant: no fence after the young cards have been skipped.
InvSkip_NoFence(t) ==
  /\ pc[t] = "inv_skip"
  /\ LET f == frame[t]
     IN  IF f.byte <= f.last_byte /\ cards[f.byte] = g1_young_card_val
         THEN /\ frame' = [frame EXCEPT ![t].byte = f.byte + 1]
              /\ UNCHANGED <<pc, lastOp>>
         ELSE IF f.byte <= f.last_byte
         THEN /\ pc' = [pc EXCEPT ![t] = IF is_Java_thread(t) THEN "inv_loop"
                                                              ELSE "inv_lock"]
              /\ UNCHANGED <<frame, lastOp>>
         ELSE Return(t, <<>>)
  /\ UNCHANGED <<cardVars, satbVars, dcqVars, lockVars, tstate, runnable, npre, nflips>>

\* One test of the loop that skips the leading young cards (line 127), and
\* after it the test of line 129 with the fence of line 130 and the test of
\* the thread's kind of line 132.
InvSkip(t) ==
  /\ pc[t] = "inv_skip"
  /\ LET f == frame[t]
     IN  IF f.byte <= f.last_byte /\ cards[f.byte] = g1_young_card_val
         THEN /\ frame' = [frame EXCEPT ![t].byte = f.byte + 1]
              /\ UNCHANGED <<pc, lastOp>>
         ELSE IF f.byte <= f.last_byte
         THEN /\ frame' = [frame EXCEPT ![t].fences = f.fences + 1]
              /\ pc' = [pc EXCEPT ![t] = IF is_Java_thread(t) THEN "inv_loop"
                                                              ELSE "inv_lock"]
              /\ UNCHANGED lastOp
         ELSE Return(t, <<>>)
  /\ UNCHANGED <<cardVars, satbVars, dcqVars, lockVars, tstate, runnable, npre, nflips>>

\* A faulty variant: the scan is entered without the lock.
InvLock_NoAcquire(t) ==
  /\ pc[t] = "inv_lock"
  /\ pc' = [pc EXCEPT ![t] = "inv_loop"]
  /\ UNCHANGED <<cardVars, satbVars, dcqVars, lockVars, tstate, frame,
                 runnable, lastOp, npre, nflips>>

\* MutexLockerEx x(Shared_DirtyCardQ_lock, ...), lines 144-145.
InvLock(t) ==
  /\ pc[t] = "inv_lock"
  /\ Shared_DirtyCardQ_lock = NoThread
  /\ Shared_DirtyCardQ_lock' = t
  /\ pc' = [pc EXCEPT ![t] = "inv_loop"]
  /\ UNCHANGED <<cardVars, satbVars, dcqVars, Shared_SATB_Q_lock, tstate, frame,
                 runnable, lastOp, npre, nflips>>

\* A faulty variant: the loop without the test for a dirty card.
InvLoop_NoDirtyTest(t) ==
  /\ pc[t] = "inv_loop"
  /\ LET f == frame[t]
     IN  IF f.byte > f.last_byte
         THEN IF is_Java_thread(t)
              THEN Return(t, <<>>)
              ELSE /\ pc' = [pc EXCEPT ![t] = "inv_unlock"]
                   /\ UNCHANGED <<frame, lastOp>>
         ELSE IF cards[f.byte] = g1_young_card_val
         THEN /\ frame' = [frame EXCEPT ![t].byte = f.byte + 1]
              /\ UNCHANGED <<pc, lastOp>>
         ELSE /\ pc' = [pc EXCEPT ![t] = "inv_store"]
              /\ UNCHANGED <<frame, lastOp>>
  /\ UNCHANGED <<cardVars, satbVars, dcqVars, lockVars, tstate, runnable, npre, nflips>>

\* A faulty variant: the loop without the test for a young card.
InvLoop_NoYoungSkip(t) ==
  /\ pc[t] = "inv_loop"
  /\ LET f == frame[t]
     IN  IF f.byte > f.last_byte
         THEN IF is_Java_thread(t)
              THEN Return(t, <<>>)
              ELSE /\ pc' = [pc EXCEPT ![t] = "inv_unlock"]
                   /\ UNCHANGED <<frame, lastOp>>
         ELSE IF cards[f.byte] # dirty_card_val
         THEN /\ pc' = [pc EXCEPT ![t] = "inv_store"]
              /\ UNCHANGED <<frame, lastOp>>
         ELSE /\ frame' = [frame EXCEPT ![t].byte = f.byte + 1]
              /\ UNCHANGED <<pc, lastOp>>
  /\ UNCHANGED <<cardVars, satbVars, dcqVars, lockVars, tstate, runnable, npre, nflips>>

\* One test of the loops of lines 134-138 and 146-150: the loop condition
\* and the two reads of the card.
InvLoop(t) ==
  /\ pc[t] = "inv_loop"
  /\ LET f == frame[t]
     IN  IF f.byte > f.last_byte
         THEN IF is_Java_thread(t)
              THEN Return(t, <<>>)
              ELSE /\ pc' = [pc EXCEPT ![t] = "inv_unlock"]
                   /\ UNCHANGED <<frame, lastOp>>
         ELSE IF cards[f.byte] = g1_young_card_val
         THEN /\ frame' = [frame EXCEPT ![t].byte = f.byte + 1]
              /\ UNCHANGED <<pc, lastOp>>
         ELSE IF cards[f.byte] # dirty_card_val
         THEN /\ pc' = [pc EXCEPT ![t] = "inv_store"]
              /\ UNCHANGED <<frame, lastOp>>
         ELSE /\ frame' = [frame EXCEPT ![t].byte = f.byte + 1]
              /\ UNCHANGED <<pc, lastOp>>
  /\ UNCHANGED <<cardVars, satbVars, dcqVars, lockVars, tstate, runnable, npre, nflips>>

\* A faulty variant: the store writes clean.
InvStore_StoresClean(t) ==
  /\ pc[t] = "inv_store"
  /\ cards' = [cards EXCEPT ![frame[t].byte] = clean_card_val]
  /\ pc' = [pc EXCEPT ![t] = "inv_enq"]
  /\ UNCHANGED <<cards0, satbVars, dcqVars, lockVars, tstate, frame, runnable,
                 lastOp, npre, nflips>>

\* *byte = dirty_card_val(), lines 139 and 151.
InvStore(t) ==
  /\ pc[t] = "inv_store"
  /\ cards' = [cards EXCEPT ![frame[t].byte] = dirty_card_val]
  /\ pc' = [pc EXCEPT ![t] = "inv_enq"]
  /\ UNCHANGED <<cards0, satbVars, dcqVars, lockVars, tstate, frame, runnable,
                 lastOp, npre, nflips>>

\* A faulty variant: the branch of the other threads dirties the card and does not
\* enqueue it.
InvEnqueue_SharedDropped(t) ==
  /\ pc[t] = "inv_enq"
  /\ IF is_Java_thread(t)
     THEN EnqueueLocalCard(t, frame[t].byte)
     ELSE UNCHANGED dcqVars
  /\ frame' = [frame EXCEPT ![t].byte = frame[t].byte + 1]
  /\ pc' = [pc EXCEPT ![t] = "inv_loop"]
  /\ UNCHANGED <<cardVars, satbVars, lockVars, tstate, runnable, lastOp, npre, nflips>>

\* The enqueue of lines 140 and 152, and the byte++ of the loop.
InvEnqueue(t) ==
  /\ pc[t] = "inv_enq"
  /\ IF is_Java_thread(t)
     THEN EnqueueLocalCard(t, frame[t].byte)
     ELSE EnqueueSharedCard(t, frame[t].byte)
  /\ frame' = [frame EXCEPT ![t].byte = frame[t].byte + 1]
  /\ pc' = [pc EXCEPT ![t] = "inv_loop"]
  /\ UNCHANGED <<cardVars, satbVars, lockVars, tstate, runnable, lastOp, npre, nflips>>

\* The end of the MutexLockerEx scope, line 155, and the return.
InvUnlock(t) ==
  /\ pc[t] = "inv_unlock"
  /\ Shared_DirtyCardQ_lock' = NoThread
  /\ Return(t, <<>>)
  /\ UNCHANGED <<cardVars, satbVars, dcqVars, Shared_SATB_Q_lock, tstate, runnable,
                 npre, nflips>>

\* ---------------------------------------------------- the pre-write barrier
\* Where enqueue returns to: the loop of write_ref_array_pre_work, whose
\* frame is f, or the caller of the barrier.
ReturnPc(f) == IF f.in_array THEN "arr_loop" ELSE "idle"
ReturnFrame(f) == IF f.in_array THEN [f EXCEPT !.pre_val = 0] ELSE IdleFrame

\* A faulty variant: the test of the global flag inverted.
EnqueueBody_FlagInverted(t, pre_val, f) ==
  IF satb_set_active
  THEN /\ pc' = [pc EXCEPT ![t] = ReturnPc(f)]
       /\ frame' = [frame EXCEPT ![t] = ReturnFrame(f)]
       /\ UNCHANGED <<satb_q, satb_completed>>
  ELSE IF is_Java_thread(t)
  THEN LET r == PtrQueue_enqueue(satb_q[t], satb_completed, pre_val)
       IN  /\ satb_q' = [satb_q EXCEPT ![t] = r.buf]
           /\ satb_completed' = r.completed
           /\ pc' = [pc EXCEPT ![t] = ReturnPc(f)]
           /\ frame' = [frame EXCEPT ![t] = ReturnFrame(f)]
  ELSE /\ pc' = [pc EXCEPT ![t] = "satb_lock"]
       /\ frame' = [frame EXCEPT ![t] = [f EXCEPT !.pre_val = pre_val]]
       /\ UNCHANGED <<satb_q, satb_completed>>

\* A faulty variant: no test of the global flag.
EnqueueBody_NoFlagTest(t, pre_val, f) ==
  IF is_Java_thread(t)
  THEN LET r == PtrQueue_enqueue(satb_q[t], satb_completed, pre_val)
       IN  /\ satb_q' = [satb_q EXCEPT ![t] = r.buf]
           /\ satb_completed' = r.completed
           /\ pc' = [pc EXCEPT ![t] = ReturnPc(f)]
           /\ frame' = [frame EXCEPT ![t] = ReturnFrame(f)]
  ELSE /\ pc' = [pc EXCEPT ![t] = "satb_lock"]
       /\ frame' = [frame EXCEPT ![t] = [f EXCEPT !.pre_val = pre_val]]
       /\ UNCHANGED <<satb_q, satb_completed>>

\* G1BarrierSet::enqueue(pre_val), lines 47-56, called from frame f: the
\* test of the global flag, and the enqueue of a Java thread on its own
\* queue; another thread goes for the lock.
EnqueueBody(t, pre_val, f) ==
  IF ~satb_set_active
  THEN /\ pc' = [pc EXCEPT ![t] = ReturnPc(f)]
       /\ frame' = [frame EXCEPT ![t] = ReturnFrame(f)]
       /\ UNCHANGED <<satb_q, satb_completed>>
  ELSE IF is_Java_thread(t)
  THEN LET r == PtrQueue_enqueue(satb_q[t], satb_completed, pre_val)
       IN  /\ satb_q' = [satb_q EXCEPT ![t] = r.buf]
           /\ satb_completed' = r.completed
           /\ pc' = [pc EXCEPT ![t] = ReturnPc(f)]
           /\ frame' = [frame EXCEPT ![t] = ReturnFrame(f)]
  ELSE /\ pc' = [pc EXCEPT ![t] = "satb_lock"]
       /\ frame' = [frame EXCEPT ![t] = [f EXCEPT !.pre_val = pre_val]]
       /\ UNCHANGED <<satb_q, satb_completed>>

\* A call of enqueue, with a reference that is not null (line 49).
enqueue(t, pre_val) ==
  /\ CanCall(t)
  /\ npre < MaxPreCalls
  /\ npre' = npre + 1
  /\ EnqueueBody(t, pre_val, frame[t])
  /\ lastOp' = IF Solo
               THEN [op |-> "enqueue", thr |-> t, arg |-> <<pre_val>>,
                     done |-> pc'[t] = "idle", res |-> <<>>]
               ELSE lastOp
  /\ UNCHANGED <<cardVars, satb_set_active, satb_active, shared_satb_q, dcqVars,
                 lockVars, tstate, runnable, nflips>>

\* MutexLockerEx x(Shared_SATB_Q_lock, ...), line 57.
SatbLock(t) ==
  /\ pc[t] = "satb_lock"
  /\ Shared_SATB_Q_lock = NoThread
  /\ Shared_SATB_Q_lock' = t
  /\ pc' = [pc EXCEPT ![t] = "satb_enq_shared"]
  /\ UNCHANGED <<cardVars, satbVars, dcqVars, Shared_DirtyCardQ_lock, tstate, frame,
                 runnable, lastOp, npre, nflips>>

\* satb_mark_queue_set().shared_satb_queue()->enqueue(pre_val), line 58.
SatbEnqueueShared(t) ==
  /\ pc[t] = "satb_enq_shared"
  /\ LET r == PtrQueue_enqueue(shared_satb_q, satb_completed, frame[t].pre_val)
     IN  /\ shared_satb_q' = r.buf
         /\ satb_completed' = r.completed
  /\ pc' = [pc EXCEPT ![t] = "satb_unlock"]
  /\ UNCHANGED <<cardVars, satb_set_active, satb_active, satb_q, dcqVars, lockVars,
                 tstate, frame, runnable, lastOp, npre, nflips>>

\* The end of the MutexLockerEx scope, line 59, and the return of enqueue.
SatbUnlock(t) ==
  /\ pc[t] = "satb_unlock"
  /\ Shared_SATB_Q_lock' = NoThread
  /\ pc' = [pc EXCEPT ![t] = ReturnPc(frame[t])]
  /\ frame' = [frame EXCEPT ![t] = ReturnFrame(frame[t])]
  /\ lastOp' = IF Solo /\ ~frame[t].in_array
               THEN [lastOp EXCEPT !.done = TRUE]
               ELSE lastOp
  /\ UNCHANGED <<cardVars, satbVars, dcqVars, Shared_DirtyCardQ_lock, tstate,
                 runnable, npre, nflips>>

\* A faulty variant: the loop stops one slot short.
write_ref_array_pre_work_SkipsLast(t, narrow, dst, count) ==
  IF ~satb_set_active
  THEN CallReturn(t, "write_ref_array_pre", <<dst, count, 0>>, <<>>)
  ELSE /\ pc' = [pc EXCEPT ![t] = "arr_loop"]
       /\ frame' = [frame EXCEPT ![t].in_array = TRUE, ![t].narrow = narrow,
                                 ![t].dst = dst,
                                 ![t].count = IF count > 0 THEN count - 1 ELSE 0,
                                 ![t].i = 0]
       /\ Called(t, "write_ref_array_pre", <<dst, count, 0>>)

\* write_ref_array_pre_work(dst, count), lines 78-80: the test of the global
\* flag, and the entry of the loop.
write_ref_array_pre_work(t, narrow, dst, count) ==
  IF ~satb_set_active
  THEN CallReturn(t, "write_ref_array_pre", <<dst, count, 0>>, <<>>)
  ELSE /\ pc' = [pc EXCEPT ![t] = "arr_loop"]
       /\ frame' = [frame EXCEPT ![t].in_array = TRUE, ![t].narrow = narrow,
                                 ![t].dst = dst, ![t].count = count, ![t].i = 0]
       /\ Called(t, "write_ref_array_pre", <<dst, count, 0>>)

\* A faulty variant: dest_uninitialized is not looked at.
write_ref_array_pre_IgnoresUninit(t, narrow, dst, count, dest_uninitialized) ==
  /\ CanCall(t)
  /\ npre < MaxPreCalls
  /\ npre' = npre + 1
  /\ write_ref_array_pre_work(t, narrow, dst, count)
  /\ UNCHANGED <<cardVars, satbVars, dcqVars, lockVars, tstate, runnable, nflips>>

\* write_ref_array_pre(dst, count, dest_uninitialized), lines 89-99, on an
\* array of oop (narrow = FALSE) or of narrowOop (narrow = TRUE).
write_ref_array_pre(t, narrow, dst, count, dest_uninitialized) ==
  /\ CanCall(t)
  /\ npre < MaxPreCalls
  /\ npre' = npre + 1
  /\ IF ~dest_uninitialized
     THEN write_ref_array_pre_work(t, narrow, dst, count)
     ELSE CallReturn(t, "write_ref_array_pre", <<dst, count, 1>>, <<>>)
  /\ UNCHANGED <<cardVars, satbVars, dcqVars, lockVars, tstate, runnable, nflips>>

\* A faulty variant: the loop without the null test of line 83.
ArrLoop_NoNullTest(t) ==
  /\ pc[t] = "arr_loop"
  /\ LET f == frame[t]
         heap_oop == oop_load(f.narrow, f.dst + f.i)
         f2 == [f EXCEPT !.i = f.i + 1]
     IN  IF f.i >= f.count
         THEN /\ Return(t, <<>>)
              /\ UNCHANGED <<satb_q, satb_completed>>
         ELSE /\ EnqueueBody(t, decode_not_null(f.narrow, heap_oop), f2)
              /\ UNCHANGED lastOp
  /\ UNCHANGED <<cardVars, satb_set_active, satb_active, shared_satb_q, dcqVars,
                 lockVars, tstate, runnable, npre, nflips>>

\* One turn of the loop of lines 81-86: the loop condition, the load of the
\* slot, the null test and the call of enqueue.
ArrLoop(t) ==
  /\ pc[t] = "arr_loop"
  /\ LET f == frame[t]
         heap_oop == oop_load(f.narrow, f.dst + f.i)
         f2 == [f EXCEPT !.i = f.i + 1]
     IN  IF f.i >= f.count
         THEN /\ Return(t, <<>>)
              /\ UNCHANGED <<satb_q, satb_completed>>
         ELSE IF is_null(heap_oop)
         THEN /\ frame' = [frame EXCEPT ![t] = f2]
              /\ UNCHANGED <<pc, lastOp, satb_q, satb_completed>>
         ELSE /\ EnqueueBody(t, decode_not_null(f.narrow, heap_oop), f2)
              /\ UNCHANGED lastOp
  /\ UNCHANGED <<cardVars, satb_set_active, satb_active, shared_satb_q, dcqVars,
                 lockVars, tstate, runnable, npre, nflips>>

\* ------------------------------------------------------- the thread hooks
\* A faulty variant: the SATB queue of the new thread is never activated.
on_thread_attach_NoActivate(t) ==
  /\ t \in runnable
  /\ is_Java_thread(t)
  /\ tstate[t] = "new"
  /\ tstate' = [tstate EXCEPT ![t] = "attached"]
  /\ CallReturn(t, "on_thread_attach", <<>>, <<>>)
  /\ UNCHANGED <<cardVars, satbVars, dcqVars, lockVars, runnable, npre, nflips>>

\* on_thread_attach(thread), lines 159-187, under the Threads_lock and so
\* outside a safepoint (line 177); the thread that is added has an inactive,
\* empty SATB queue (lines 178-179).
on_thread_attach(t) ==
  /\ t \in runnable
  /\ is_Java_thread(t)
  /\ tstate[t] = "new"
  /\ satb_active' = [satb_active EXCEPT ![t] = IF satb_set_active THEN TRUE ELSE @]
  /\ tstate' = [tstate EXCEPT ![t] = "attached"]
  /\ CallReturn(t, "on_thread_attach", <<>>, <<>>)
  /\ UNCHANGED <<cardVars, satb_set_active, satb_q, shared_satb_q, satb_completed,
                 dcqVars, lockVars, runnable, npre, nflips>>

\* A faulty variant: the dirty card queue is not flushed.
on_thread_detach_NoDcqFlush(t) ==
  /\ CanCall(t)
  /\ is_Java_thread(t)
  /\ LET s == PtrQueue_flush(satb_q[t], satb_completed)
     IN  /\ satb_q' = [satb_q EXCEPT ![t] = s.buf]
         /\ satb_completed' = s.completed
  /\ tstate' = [tstate EXCEPT ![t] = "detached"]
  /\ CallReturn(t, "on_thread_detach", <<>>, <<Len(satb_q[t]), Len(dcq[t])>>)
  /\ UNCHANGED <<cardVars, satb_set_active, satb_active, shared_satb_q, dcqVars,
                 lockVars, runnable, npre, nflips>>

\* on_thread_detach(thread), lines 189-194: the flush of both queues.
on_thread_detach(t) ==
  /\ CanCall(t)
  /\ is_Java_thread(t)
  /\ LET s == PtrQueue_flush(satb_q[t], satb_completed)
         d == PtrQueue_flush(dcq[t], dcq_completed)
     IN  /\ satb_q' = [satb_q EXCEPT ![t] = s.buf]
         /\ satb_completed' = s.completed
         /\ dcq' = [dcq EXCEPT ![t] = d.buf]
         /\ dcq_completed' = d.completed
  /\ tstate' = [tstate EXCEPT ![t] = "detached"]
  /\ CallReturn(t, "on_thread_detach", <<>>, <<Len(satb_q[t]), Len(dcq[t])>>)
  /\ UNCHANGED <<cardVars, satb_set_active, satb_active, shared_satb_q, shared_dcq,
                 lockVars, runnable, npre, nflips>>

\* SATBMarkQueueSet::set_active_all_threads, at a safepoint: no thread is
\* inside a barrier; the global flag and the flag of every queue of the
\* thread list change together.
set_active_all_threads ==
  /\ \A t \in Threads : pc[t] = "idle"
  /\ nflips < MaxFlips
  /\ nflips' = nflips + 1
  /\ satb_set_active' = ~satb_set_active
  /\ satb_active' = [t \in JavaThreads |->
                       IF tstate[t] = "attached" THEN ~satb_set_active
                                                 ELSE satb_active[t]]
  /\ lastOp' = IF Solo
               THEN [op |-> "set_active_all_threads", thr |-> NoThread,
                     arg |-> <<>>, done |-> TRUE, res |-> <<>>]
               ELSE lastOp
  /\ UNCHANGED <<cardVars, satb_q, shared_satb_q, satb_completed, dcqVars, lockVars,
                 tstate, pc, frame, runnable, npre>>

\* ------------------------------------------------------------ initial states
AllClean == [c \in Cards |-> clean_card_val]

InitWith(tables, rs, life, flags) ==
  /\ cards \in tables
  /\ cards0 = cards
  /\ satb_set_active \in flags
  /\ satb_active = [t \in JavaThreads |-> life = "attached" /\ satb_set_active]
  /\ satb_q = [t \in JavaThreads |-> <<>>]
  /\ shared_satb_q = <<>>
  /\ satb_completed = <<>>
  /\ dcq = [t \in JavaThreads |-> <<>>]
  /\ shared_dcq = <<>>
  /\ dcq_completed = <<>>
  /\ Shared_SATB_Q_lock = NoThread
  /\ Shared_DirtyCardQ_lock = NoThread
  /\ tstate = [t \in JavaThreads |-> life]
  /\ pc = [t \in Threads |-> "idle"]
  /\ frame = [t \in Threads |-> IdleFrame]
  /\ runnable \in rs
  /\ lastOp = NoOp
  /\ npre = 0
  /\ nflips = 0

\* ------------------------------------------------------------------ steps
PostStep(t) ==
  \/ \E c \in Cards : write_ref_field_post(t, c)
  \/ PostCheck(t)
  \/ PostStore(t)
  \/ PostEnqueueLocal(t)
  \/ PostLock(t)
  \/ PostEnqueueShared(t)
  \/ PostUnlock(t)

InvalidateStep(t) ==
  \/ \E mr \in HeapRegions : invalidate(t, mr)
  \/ InvSkip(t)
  \/ InvLock(t)
  \/ InvLoop(t)
  \/ InvStore(t)
  \/ InvEnqueue(t)
  \/ InvUnlock(t)

SatbStep(t) ==
  \/ \E v \in Oops : enqueue(t, v)
  \/ SatbLock(t)
  \/ SatbEnqueueShared(t)
  \/ SatbUnlock(t)
  \/ \E narrow \in BOOLEAN, dst \in ArraySlots, uninit \in BOOLEAN :
       \E count \in 0 .. (Len(HeapRefs) - dst + 1) :
         write_ref_array_pre(t, narrow, dst, count, uninit)
  \/ ArrLoop(t)

\* The scenarios: the threads that run, two at a time or one alone.
Pairs == {{"j1", "j2"}, {"j1", "w1"}, {"w1", "w2"}}
Solos == {{"j1"}, {"w1"}}

\* The card barriers, with the Java threads on the thread list.
NextCard == \E t \in Threads : PostStep(t) \/ InvalidateStep(t)
InitCard == InitWith([Cards -> CardVals], Pairs \cup Solos, "attached", {FALSE})
SpecCard == InitCard /\ [][NextCard]_vars

\* The post-write barrier alone, one thread alone.
NextPost == \E t \in Threads : PostStep(t)
InitPost == InitWith([Cards -> CardVals], Solos, "attached", {FALSE})
SpecPost == InitPost /\ [][NextPost]_vars

\* The post-write barrier alone, two or three threads at a time.
Trios == {{"j1", "w1", "w2"}}
InitRace == InitWith([Cards -> CardVals], Pairs \cup Trios, "attached", {FALSE})
SpecRace == InitRace /\ [][NextPost]_vars

\* The pre-write barrier, the attach of the Java threads and the safepoints
\* that change the global flag.
NextSatb ==
  \/ \E t \in Threads : SatbStep(t)
  \/ \E t \in Threads : on_thread_attach(t)
  \/ set_active_all_threads
InitSatb == InitWith({AllClean}, Pairs \cup Solos, "new", BOOLEAN)
SpecSatb == InitSatb /\ [][NextSatb]_vars

\* The life of a Java thread: it is added to the thread list, runs the
\* barriers on its own queues and terminates.
JavaStep(t) ==
  \/ on_thread_attach(t)
  \/ \E c \in Cards : write_ref_field_post(t, c)
  \/ PostCheck(t)
  \/ PostStore(t)
  \/ PostEnqueueLocal(t)
  \/ \E mr \in HeapRegions : invalidate(t, mr)
  \/ InvSkip(t)
  \/ InvLoop(t)
  \/ InvStore(t)
  \/ InvEnqueue(t)
  \/ \E v \in Oops : enqueue(t, v)
  \/ \E narrow \in BOOLEAN, dst \in ArraySlots, uninit \in BOOLEAN :
       \E count \in 0 .. (Len(HeapRefs) - dst + 1) :
         write_ref_array_pre(t, narrow, dst, count, uninit)
  \/ ArrLoop(t)
  \/ on_thread_detach(t)

NextLife ==
  \/ \E t \in JavaThreads : JavaStep(t)
  \/ set_active_all_threads
InitLife == InitWith({AllClean}, {{"j1"}}, "new", {TRUE})
SpecLife == InitLife /\ [][NextLife]_vars

\* The pre-write barrier of a field, on one reference.
PreStep(t) ==
  \/ enqueue(t, Head(HeapRefs))
  \/ SatbLock(t)
  \/ SatbEnqueueShared(t)
  \/ SatbUnlock(t)

\* The field and card barriers during a marking cycle, two Java threads or
\* two other threads at a time, on a card table of which the first two
\* cards are clean and the others dirty.
SameKindPairs == {{"j1", "j2"}, {"w1", "w2"}}
TwoClean == [c \in Cards |-> IF c <= 1 THEN clean_card_val ELSE dirty_card_val]
NextBarriers == \E t \in Threads : PostStep(t) \/ InvalidateStep(t) \/ PreStep(t)
InitBarriers == InitWith({TwoClean}, SameKindPairs, "attached", {TRUE})
SpecBarriers == InitBarriers /\ [][NextBarriers]_vars

\* The array pre-write barrier over no slot and over all slots of an array
\* of oop; it calls enqueue for every slot that is not null.
ArrStep(t) ==
  \/ \E count \in {0, Len(HeapRefs)} :
       write_ref_array_pre(t, FALSE, 1, count, FALSE)
  \/ ArrLoop(t)

\* The steps inside a call that wait for nothing, and the steps that wait
\* for a lock.
ContinueStep(t) ==
  \/ PostCheck(t) \/ PostStore(t) \/ PostEnqueueLocal(t) \/ PostEnqueueShared(t)
  \/ PostUnlock(t)
  \/ InvSkip(t) \/ InvLoop(t) \/ InvStore(t) \/ InvEnqueue(t) \/ InvUnlock(t)
  \/ SatbEnqueueShared(t) \/ SatbUnlock(t) \/ ArrLoop(t)
LockStep(t) == PostLock(t) \/ InvLock(t) \/ SatbLock(t)

\* The barriers during a marking cycle, a Java thread next to another
\* thread or two other threads, under a fair scheduler: a thread inside a
\* call takes its next step, and a thread that waits for a lock that is
\* released again and again gets it.
OneClean == [c \in Cards |-> IF c = 0 THEN clean_card_val ELSE dirty_card_val]
NextFair ==
  \E t \in Threads : PostStep(t) \/ InvalidateStep(t) \/ ArrStep(t)
InitFair == InitWith({OneClean}, {{"j1", "w1"}, {"w1", "w2"}}, "attached", {TRUE})
SpecFair ==
  /\ InitFair /\ [][NextFair]_vars
  /\ \A t \in Threads : WF_vars(ContinueStep(t)) /\ SF_vars(LockStep(t))

\* Everything, one thread alone.
Next ==
  \/ \E t \in Threads : PostStep(t) \/ InvalidateStep(t)
  \/ \E t \in Threads : SatbStep(t)
  \/ \E t \in Threads : on_thread_attach(t)
  \/ \E t \in Threads : on_thread_detach(t)
  \/ set_active_all_threads
Init == InitWith({AllClean}, Solos, "new", BOOLEAN)
Spec == Init /\ [][Next]_vars

\* ================================================================= claims
AllIdle == \A t \in Threads : pc[t] = "idle"

\* The card has been set to dirty by a barrier: the barriers are all that
\* writes the card table here.
EngineDirtied(c) == cards0[c] # dirty_card_val /\ cards[c] = dirty_card_val

\* The places of a call between its store of dirty and its enqueue.
EnqueuePending == {"post_enq", "post_lock", "post_enq_shared", "inv_enq"}

\* C1: under any interleaving of write_ref_field_post_slow and invalidate,
\* every card a barrier has set to dirty has a record in some dirty-card
\* buffer, or the thread that stored dirty is still in its call and has not
\* enqueued yet; so with all calls returned every such card is recorded.
C1_NoLostDirtyCard ==
  \A c \in Cards :
    EngineDirtied(c) =>
      \/ CardRecords(c) >= 1
      \/ \E t \in Threads : pc[t] \in EnqueuePending /\ frame[t].byte = c

\* A Java thread and another thread have both dirtied and recorded a card.
C1_Witness ==
  /\ runnable = {"j1", "w1"}
  /\ AllIdle
  /\ \E c \in Cards :
       /\ EngineDirtied(c)
       /\ CountIn(dcq["j1"], c) = 1
       /\ CountIn(shared_dcq, c) = 1

\* C2: with the SATB queue set active, a call of enqueue with a reference
\* that is not null leaves the reference in a buffer when it returns: a Java
\* thread appends it to its own queue in the step of the call; another
\* thread does not return before it has appended it, under the lock, to the
\* shared queue (full buffers are on the completed list).
C2_SnapshotCompleteness ==
  [][\A t \in Threads :
       /\ \A v \in Oops :
            (enqueue(t, v) /\ satb_set_active) =>
              IF is_Java_thread(t)
              THEN /\ pc'[t] = "idle"
                   /\ CountIn(satb_q'[t], v) + CountInAll(satb_completed', v)
                        = CountIn(satb_q[t], v) + CountInAll(satb_completed, v) + 1
              ELSE pc'[t] = "satb_lock" /\ frame'[t].pre_val = v
       /\ (pc[t] = "satb_lock" /\ pc'[t] # pc[t]) => pc'[t] = "satb_enq_shared"
       /\ (pc[t] = "satb_enq_shared" /\ pc'[t] # pc[t]) =>
            /\ pc'[t] = "satb_unlock"
            /\ CountIn(shared_satb_q', frame[t].pre_val)
                 + CountInAll(satb_completed', frame[t].pre_val)
                 = CountIn(shared_satb_q, frame[t].pre_val)
                     + CountInAll(satb_completed, frame[t].pre_val) + 1
       /\ (pc[t] = "satb_unlock" /\ pc'[t] # pc[t]) =>
            CountIn(shared_satb_q', frame[t].pre_val)
              + CountInAll(satb_completed', frame[t].pre_val) >= 1
    ]_vars

\* A call of enqueue by a thread that is no Java thread has returned with
\* the set active, and the shared queue holds the reference.
C2_Witness ==
  /\ Solo
  /\ lastOp.op = "enqueue" /\ lastOp.done
  /\ lastOp.thr \in NonJavaThreads
  /\ satb_set_active
  /\ shared_satb_q = lastOp.arg

\* C3: with the SATB queue set inactive, no step of enqueue or of
\* write_ref_array_pre, on any thread, changes a SATB buffer (thread-local,
\* shared, completed) or takes the shared SATB lock; the call returns in the
\* step that makes it.
C3_SnapshotSuppression ==
  [][\A t \in Threads :
       (~satb_set_active /\ SatbStep(t)) =>
         /\ UNCHANGED <<satb_q, shared_satb_q, satb_completed, Shared_SATB_Q_lock>>
         /\ pc'[t] = "idle"
    ]_vars

\* A call of write_ref_array_pre over initialized slots that are not all
\* null has returned with the set inactive, and no buffer holds a record.
C3_Witness ==
  /\ Solo
  /\ lastOp.op = "write_ref_array_pre" /\ lastOp.done
  /\ lastOp.arg = <<1, 3, 0>>
  /\ ~satb_set_active
  /\ \A v \in Oops : SatbRecords(v) = 0
  /\ Shared_SATB_Q_lock = NoThread

\* C4: in a single-threaded sequence of post-write barrier calls, once the
\* calls have returned every card has exactly one record if a call has
\* dirtied it and none otherwise, and the card of a call that was clean at
\* the start is dirty.
C4_NoLostDirtyCardSingle ==
  (Solo /\ AllIdle) =>
    /\ \A c \in Cards :
         CardRecords(c) =
           IF cards0[c] = clean_card_val /\ cards[c] = dirty_card_val THEN 1 ELSE 0
    /\ (lastOp.op = "write_ref_field_post" /\ cards0[lastOp.arg[1]] = clean_card_val)
         => cards[lastOp.arg[1]] = dirty_card_val

\* Every card was clean, every card has been dirtied by a call of its own
\* and has one record.
C4_Witness ==
  /\ Solo /\ AllIdle
  /\ lastOp.op = "write_ref_field_post" /\ lastOp.done /\ lastOp.res = <<1>>
  /\ \A c \in Cards :
       cards0[c] = clean_card_val /\ cards[c] = dirty_card_val /\ CardRecords(c) = 1

\* C5: single-threaded, a call of the post-write barrier on a card that is
\* dirty returns after its read of the card, leaves the card dirty and adds
\* no record to any dirty-card buffer.
C5_IdempotentDirtying ==
  [][\A t \in Threads :
       Solo =>
         /\ \A c \in Cards :
              (write_ref_field_post(t, c) /\ cards[c] = dirty_card_val) =>
                (cards' = cards /\ UNCHANGED dcqVars)
         /\ (pc[t] = "post_check" /\ cards[frame[t].byte] = dirty_card_val
               /\ pc'[t] # pc[t]) =>
              (pc'[t] = "idle" /\ cards' = cards /\ UNCHANGED dcqVars)
    ]_vars

\* A later call on a card that a call has dirtied has returned without an
\* enqueue; the card is dirty and has its one record.
C5_Witness ==
  /\ Solo /\ AllIdle
  /\ lastOp.op = "write_ref_field_post" /\ lastOp.done /\ lastOp.res = <<0>>
  /\ cards0[lastOp.arg[1]] = clean_card_val
  /\ cards[lastOp.arg[1]] = dirty_card_val
  /\ CardRecords(lastOp.arg[1]) = 1

\* The places of a call that has passed the tests for a young card.
PastYoungTest ==
  {"post_check", "post_store", "post_enq", "post_lock", "post_enq_shared",
   "post_unlock", "inv_store", "inv_enq"}

YoungThenClean(a, m, b) ==
  /\ \A c \in a .. m : cards0[c] = g1_young_card_val
  /\ \A c \in (m + 1) .. b : cards0[c] = clean_card_val

\* C7: a single-threaded invalidate of a region that is not empty and
\* covers the cards C0 = byte_for(start) .. Ck = byte_for(last), of which
\* C0..Cm are young and Cm+1..Ck clean, leaves C0..Cm young and without a
\* record and every card of Cm+1..Ck, Ck included, dirty with one record.
C7_InvalidateRangeCoverage ==
  (Solo /\ lastOp.op = "invalidate" /\ lastOp.done /\ lastOp.arg[2] > 0) =>
    LET C0 == byte_for(lastOp.arg[1])
        Ck == byte_for(lastOp.arg[1] + lastOp.arg[2] - 1)
    IN  \A m \in (C0 - 1) .. Ck :
          YoungThenClean(C0, m, Ck) =>
            /\ \A c \in C0 .. m :
                 cards[c] = g1_young_card_val /\ CardRecords(c) = 0
            /\ \A c \in (m + 1) .. Ck :
                 cards[c] = dirty_card_val /\ CardRecords(c) = 1

\* An invalidate of words 1..2, which end in the first word of the last
\* card, has returned: the young card 0 is as it was, card 1 is dirty.
C7_Witness ==
  /\ Solo
  /\ lastOp.op = "invalidate" /\ lastOp.done
  /\ lastOp.arg = <<CardSizeInWords - 1, 2>>
  /\ cards0[0] = g1_young_card_val /\ cards[0] = g1_young_card_val
  /\ cards0[1] = clean_card_val /\ cards[1] = dirty_card_val
  /\ CardRecords(0) = 0 /\ CardRecords(1) = 1

\* C8: write_ref_array_pre with dest_uninitialized returns in the step of
\* the call, for every dst and count and with the set active or inactive: it
\* does not enter the loop that loads the slots, changes no SATB buffer and
\* takes no lock.
C8_UninitializedSkip ==
  [][\A t \in Threads, narrow \in BOOLEAN, dst \in ArraySlots :
       \A count \in 0 .. Len(HeapRefs) :
         write_ref_array_pre(t, narrow, dst, count, TRUE) =>
           /\ pc'[t] = "idle"
           /\ frame'[t] = IdleFrame
           /\ UNCHANGED <<satb_q, shared_satb_q, satb_completed, Shared_SATB_Q_lock>>
    ]_vars

\* Such a call over slots that are not all null has returned with the set
\* active, and no buffer holds a record.
C8_Witness ==
  /\ Solo
  /\ lastOp.op = "write_ref_array_pre" /\ lastOp.done
  /\ lastOp.arg = <<1, 3, 1>>
  /\ satb_set_active
  /\ \A v \in Oops : SatbRecords(v) = 0

\* C9: on_thread_attach, which no change of the global flag interleaves
\* with, leaves the thread's SATB queue empty and active exactly if the
\* global flag is set.
C9_AttachLinearization ==
  [][\A t \in JavaThreads :
       on_thread_attach(t) =>
         /\ satb_active'[t] = satb_set_active
         /\ satb_set_active' = satb_set_active
         /\ satb_q'[t] = <<>>
    ]_vars

\* A thread has been attached after the flag was set at a safepoint, and
\* its queue is active and empty.
C9_Witness ==
  /\ Solo
  /\ lastOp.op = "on_thread_attach"
  /\ nflips = 1
  /\ satb_set_active
  /\ satb_active[lastOp.thr]
  /\ satb_q[lastOp.thr] = <<>>

\* C10: on_thread_detach leaves both queues of the thread empty, and every
\* record they held is on the completed list of its queue set.
C10_DetachFlush ==
  [][\A t \in JavaThreads :
       on_thread_detach(t) =>
         /\ satb_q'[t] = <<>>
         /\ dcq'[t] = <<>>
         /\ \A v \in Oops :
              CountInAll(satb_completed', v)
                = CountInAll(satb_completed, v) + CountIn(satb_q[t], v)
         /\ \A c \in Cards :
              CountInAll(dcq_completed', c)
                = CountInAll(dcq_completed, c) + CountIn(dcq[t], c)
    ]_vars

\* A thread has terminated with a record in each of its queues; both are
\* empty and both completed lists hold a buffer.
C10_Witness ==
  /\ Solo
  /\ lastOp.op = "on_thread_detach"
  /\ lastOp.res = <<1, 1>>
  /\ satb_q[lastOp.thr] = <<>> /\ dcq[lastOp.thr] = <<>>
  /\ Len(satb_completed) = 1 /\ Len(dcq_completed) = 1

\* The records of all SATB buffers, thread-local, shared and completed.
RECURSIVE Flatten(_)
Flatten(bufs) ==
  IF bufs = <<>> THEN <<>> ELSE Head(bufs) \o Flatten(Tail(bufs))

RECURSIVE RangeOfEach(_, _)
RangeOfEach(S, f) ==
  IF S = {} THEN {}
  ELSE LET t == CHOOSE x \in S : TRUE
       IN  {f[t][k] : k \in 1 .. Len(f[t])} \cup RangeOfEach(S \ {t}, f)

SatbContents ==
  RangeOfEach(JavaThreads, satb_q)
    \cup {shared_satb_q[k] : k \in 1 .. Len(shared_satb_q)}
    \cup {Flatten(satb_completed)[k] : k \in 1 .. Len(Flatten(satb_completed))}

\* C11: after any sequence of enqueue and write_ref_array_pre calls by any
\* threads, no SATB buffer, thread-local, shared or completed, holds a null
\* reference, and no call is on its way to the shared queue with one.
C11_NoNullInSatbBuffers ==
  /\ \A v \in SatbContents : ~is_null(v)
  /\ \A t \in Threads :
       pc[t] \in {"satb_lock", "satb_enq_shared"} => ~is_null(frame[t].pre_val)

\* A call of write_ref_array_pre over the three slots, of which the second
\* is null, has returned with the set active: the buffers hold the two
\* references and nothing else.
C11_Witness ==
  /\ Solo
  /\ lastOp.op = "write_ref_array_pre" /\ lastOp.done
  /\ lastOp.arg = <<1, 3, 0>>
  /\ satb_set_active
  /\ SatbContents = Oops

\* Thread t takes a step.
Steps(t) == pc'[t] # pc[t] \/ frame'[t] # frame[t]

\* A step of thread t in one of the three barriers: a step that moves the
\* thread, or a call of enqueue, which a Java thread makes and returns from
\* in one step.
BarrierStep(t) == Steps(t) \/ \E v \in Oops : enqueue(t, v)

\* The threads that are at an append to the shared SATB queue, and to the
\* shared dirty card queue.
InSharedSatbAppend == {t \in Threads : pc[t] = "satb_enq_shared"}
InSharedCardAppend ==
  {t \in Threads : \/ pc[t] = "post_enq_shared"
                   \/ pc[t] = "inv_enq" /\ ~is_Java_thread(t)}

\* C12: a thread appends to the shared SATB queue only as the owner of
\* Shared_SATB_Q_lock and to the shared dirty card queue only as the owner of
\* Shared_DirtyCardQ_lock, two locks of which each has one owner at most; so
\* at most one thread is at an append to either shared queue.
C12_SharedBufferMutualExclusion ==
  /\ \A t \in InSharedSatbAppend : Shared_SATB_Q_lock = t
  /\ \A t \in InSharedCardAppend : Shared_DirtyCardQ_lock = t
  /\ Cardinality(InSharedSatbAppend) <= 1
  /\ Cardinality(InSharedCardAppend) <= 1

\* One thread is at its append to the shared SATB queue while another is at
\* its append to the shared dirty card queue: the locks are two.
C12_Witness ==
  /\ pc["w1"] = "satb_enq_shared" /\ Shared_SATB_Q_lock = "w1"
  /\ pc["w2"] = "post_enq_shared" /\ Shared_DirtyCardQ_lock = "w2"


\* C14: a step of enqueue, write_ref_field_post_slow or invalidate on a Java
\* thread changes no shared queue, no lock and no queue of another Java
\* thread, and its record goes to the thread's own queue; a step on another
\* thread changes no thread-local queue, and its record goes to the shared
\* queue.  No Java thread ever owns a shared-queue lock.
C14_ThreadKindRouting ==
  /\ [](Shared_SATB_Q_lock \notin JavaThreads /\ Shared_DirtyCardQ_lock \notin JavaThreads)
  /\ [][\A t \in Threads :
         BarrierStep(t) =>
           IF is_Java_thread(t)
           THEN /\ UNCHANGED <<shared_dcq, shared_satb_q, lockVars>>
                /\ \A u \in JavaThreads \ {t} :
                     dcq'[u] = dcq[u] /\ satb_q'[u] = satb_q[u]
                /\ pc[t] \in {"post_enq", "inv_enq"} =>
                     CountIn(dcq'[t], frame[t].byte)
                         + CountInAll(dcq_completed', frame[t].byte)
                       = CountIn(dcq[t], frame[t].byte)
                           + CountInAll(dcq_completed, frame[t].byte) + 1
                /\ \A v \in Oops :
                     enqueue(t, v) =>
                       CountIn(satb_q'[t], v) + CountInAll(satb_completed', v)
                         = CountIn(satb_q[t], v) + CountInAll(satb_completed, v) + 1
           ELSE /\ UNCHANGED <<dcq, satb_q>>
                /\ pc[t] \in {"post_enq_shared", "inv_enq"} =>
                     CountIn(shared_dcq', frame[t].byte)
                         + CountInAll(dcq_completed', frame[t].byte)
                       = CountIn(shared_dcq, frame[t].byte)
                           + CountInAll(dcq_completed, frame[t].byte) + 1
                /\ pc[t] = "satb_enq_shared" =>
                     CountIn(shared_satb_q', frame[t].pre_val)
                         + CountInAll(satb_completed', frame[t].pre_val)
                       = CountIn(shared_satb_q, frame[t].pre_val)
                           + CountInAll(satb_completed, frame[t].pre_val) + 1
      ]_vars

\* Two Java threads have run the three barriers next to each other: each
\* holds its own SATB record and its own card record, the shared queues are
\* empty.
C14_Witness ==
  /\ runnable = {"j1", "j2"}
  /\ AllIdle
  /\ \A t \in JavaThreads : Len(satb_q[t]) = 1 /\ Len(dcq[t]) = 1
  /\ dcq["j1"] # dcq["j2"]
  /\ shared_dcq = <<>> /\ shared_satb_q = <<>>

RECURSIVE NonNullRefs(_, _)
NonNullRefs(dst, count) ==
  IF count = 0 THEN <<>>
  ELSE (IF HeapRefs[dst] = 0 THEN <<>> ELSE <<HeapRefs[dst]>>)
         \o NonNullRefs(dst + 1, count - 1)

\* The SATB records of thread t in the order of their enqueue, when t is
\* the one thread that has enqueued.
SatbRecordsOf(t) ==
  Flatten(satb_completed) \o (IF is_Java_thread(t) THEN satb_q[t] ELSE shared_satb_q)

\* C15: with the set active, the first call write_ref_array_pre(dst, count,
\* false) of a thread that runs alone has enqueued, when it returns, the
\* references of the slots dst .. dst+count-1 that are not null, one record
\* each in ascending order of the slots, and nothing else (nothing at all
\* for count = 0); the loop loads slot dst+i only for i < count.
C15_ArrayPerSlotSnapshot ==
  /\ []((Solo /\ npre = 1 /\ lastOp.op = "write_ref_array_pre" /\ lastOp.done
           /\ lastOp.arg[3] = 0 /\ satb_set_active) =>
          SatbRecordsOf(lastOp.thr) = NonNullRefs(lastOp.arg[1], lastOp.arg[2]))
  /\ [](\A t \in Threads :
          pc[t] = "arr_loop" => frame[t].i >= 0 /\ frame[t].i <= frame[t].count)
  /\ [][\A t \in Threads :
         (frame[t].in_array /\ frame'[t].in_array /\ frame'[t].i # frame[t].i) =>
           /\ frame[t].i < frame[t].count
           /\ frame'[t].i = frame[t].i + 1
           /\ frame'[t].dst = frame[t].dst /\ frame'[t].count = frame[t].count
      ]_vars

\* A thread that is no Java thread has run the call over the three slots,
\* of which the second is null: the first and the third reference are
\* recorded, in this order.
C15_Witness ==
  /\ Solo /\ npre = 1
  /\ lastOp.op = "write_ref_array_pre" /\ lastOp.done
  /\ lastOp.arg = <<1, 3, 0>>
  /\ lastOp.thr \in NonJavaThreads
  /\ satb_set_active
  /\ SatbRecordsOf(lastOp.thr) = <<8, 16>>

\* The places of invalidate after the test of line 129.
InvPastFence == {"inv_lock", "inv_loop", "inv_store", "inv_enq", "inv_unlock"}


\* C16: invalidate of an empty region returns at once; while it skips the
\* leading young cards it has issued no fence and changes no card, queue or
\* lock, and it returns from there exactly if every card of the range is
\* young; otherwise it issues one fence, and it is only with that one fence
\* issued that it takes the lock, stores into a card or enqueues.
C16_InvalidateFenceDiscipline ==
  /\ [](\A t \in Threads :
          /\ pc[t] = "inv_skip" => frame[t].fences = 0
          /\ pc[t] \in InvPastFence => frame[t].fences = 1)
  /\ [][\A t \in Threads :
         /\ \A p \in 0 .. (HeapWords - 1) :
              invalidate(t, [start |-> p, word_size |-> 0]) =>
                /\ pc'[t] = "idle" /\ frame'[t] = IdleFrame
                /\ UNCHANGED <<cards, dcqVars, lockVars>>
         /\ (pc[t] = "inv_skip" /\ Steps(t)) =>
              /\ UNCHANGED <<cards, dcqVars, lockVars>>
              /\ pc'[t] \in {"inv_skip", "idle", "inv_lock", "inv_loop"}
              /\ pc'[t] = "idle" =>
                   \A c \in frame[t].first_byte .. frame[t].last_byte :
                     Solo => cards[c] = g1_young_card_val
              /\ pc'[t] \in {"inv_lock", "inv_loop"} =>
                   /\ cards[frame[t].byte] # g1_young_card_val
                   /\ frame[t].byte <= frame[t].last_byte
                   /\ frame'[t].fences = 1
         /\ (pc[t] \in InvPastFence /\ pc'[t] \in InvPastFence) =>
              frame'[t].fences = frame[t].fences
      ]_vars

\* An invalidate that has gone over a leading young card is about to store
\* into the first card that is not young: the fence has been issued, no
\* card has been written and nothing enqueued.
C16_Witness ==
  /\ Solo
  /\ lastOp.op = "invalidate" /\ ~lastOp.done
  /\ pc[lastOp.thr] = "inv_store"
  /\ frame[lastOp.thr].fences = 1
  /\ frame[lastOp.thr].byte > frame[lastOp.thr].first_byte
  /\ cards = cards0
  /\ \A c \in Cards : CardRecords(c) = 0

\* The places of a call of invalidate.
InInvalidate == {"inv_skip"} \cup InvPastFence

\* C17: a single-threaded invalidate of a region that covers the cards
\* C0 .. Ck leaves every card of them that was young young and without a
\* record, wherever in the range it lies, every card that was dirty dirty
\* and without a new record, and every other card dirty with one record;
\* no step of the call changes a card outside C0 .. Ck or its records, and
\* a step that stores into a card finds it clean.
C17_InvalidatePostcondition ==
  /\ []((Solo /\ lastOp.op = "invalidate" /\ lastOp.done /\ lastOp.arg[2] > 0) =>
          \A c \in byte_for(lastOp.arg[1])
                    .. byte_for(lastOp.arg[1] + lastOp.arg[2] - 1) :
            /\ cards0[c] = g1_young_card_val =>
                 cards[c] = g1_young_card_val /\ CardRecords(c) = 0
            /\ cards0[c] = dirty_card_val =>
                 cards[c] = dirty_card_val /\ CardRecords(c) = 0
            /\ cards0[c] = clean_card_val =>
                 cards[c] = dirty_card_val /\ CardRecords(c) = 1)
  /\ [][\A t \in Threads :
         (Solo /\ pc[t] \in InInvalidate /\ Steps(t)) =>
           \A c \in Cards :
             /\ c \notin frame[t].first_byte .. frame[t].last_byte =>
                  cards'[c] = cards[c] /\ CardRecords(c)' = CardRecords(c)
             /\ cards'[c] # cards[c] =>
                  /\ cards[c] = clean_card_val /\ cards'[c] = dirty_card_val
                  /\ pc[t] = "inv_store" /\ frame[t].byte = c
             /\ CardRecords(c)' # CardRecords(c) =>
                  /\ CardRecords(c)' = CardRecords(c) + 1
                  /\ pc[t] = "inv_enq" /\ frame[t].byte = c
      ]_vars

\* An invalidate of the whole heap has returned: the card that was dirty
\* is dirty and has no record, the card that was clean is dirty and has
\* one.
C17_Witness ==
  /\ Solo
  /\ lastOp.op = "invalidate" /\ lastOp.done
  /\ lastOp.arg = <<0, HeapWords>>
  /\ cards0[0] = dirty_card_val /\ cards[0] = dirty_card_val /\ CardRecords(0) = 0
  /\ cards0[1] = clean_card_val /\ cards[1] = dirty_card_val /\ CardRecords(1) = 1

\* C18: across any interleaving of write_ref_field_post_slow and invalidate
\* calls, a step that changes a card sets it to dirty, a card that is dirty
\* stays dirty, and a store, also one that leaves the card as it is, is a
\* store of dirty: two threads that store into the same card leave it dirty.
C18_CardStateMonotonicity ==
  [][/\ \A c \in Cards :
          /\ cards'[c] # cards[c] => cards'[c] = dirty_card_val
          /\ cards[c] = dirty_card_val => cards'[c] = dirty_card_val
     /\ \A t \in Threads :
          (pc[t] \in {"post_store", "inv_store"} /\ Steps(t)) =>
            cards'[frame[t].byte] = dirty_card_val
    ]_vars

\* Two threads have both read the same card as clean and have both stored
\* into it; neither has enqueued yet, and the card is dirty.
C18_Witness ==
  /\ runnable = {"w1", "w2"}
  /\ pc["w1"] \in EnqueuePending /\ pc["w2"] \in EnqueuePending
  /\ frame["w1"].byte = frame["w2"].byte
  /\ cards0[frame["w1"].byte] = clean_card_val
  /\ cards[frame["w1"].byte] = dirty_card_val

\* The places of a call of write_ref_field_post_slow.
InPostSlow ==
  {"post_check", "post_store", "post_enq", "post_lock", "post_enq_shared",
   "post_unlock"}

\* C19: a call of write_ref_field_post_slow goes on to its store only from
\* its own read of the card as not dirty, enqueues one record after the
\* store and then returns; a call on a card that was clean returns with the
\* card dirty and recorded, or about to be recorded by the thread that has
\* stored into it.  So with N threads calling it on a card that was
\* clean the card has at most N records at any time, and at least one once
\* a call has dirtied it and the calls have returned.
C19_BoundedDuplication ==
  /\ [](\A c \in Cards :
          /\ CardRecords(c) <= Cardinality(runnable)
          /\ cards0[c] # clean_card_val => CardRecords(c) = 0
          /\ (AllIdle /\ EngineDirtied(c)) => CardRecords(c) >= 1)
  /\ [][\A t \in Threads, b \in Cards :
         (pc[t] \in InPostSlow /\ Steps(t) /\ frame[t].byte = b) =>
           /\ pc'[t] = "post_store" =>
                pc[t] = "post_check" /\ cards[b] # dirty_card_val
           /\ pc[t] \in {"post_enq", "post_enq_shared"} =>
                /\ pc'[t] \in {"idle", "post_unlock"}
                /\ CardRecords(b)' = CardRecords(b) + 1
           /\ \A c \in Cards :
                CardRecords(c)' # CardRecords(c) =>
                  pc[t] \in {"post_enq", "post_enq_shared"} /\ c = b
           /\ (pc'[t] = "idle" /\ cards0[b] = clean_card_val) =>
                /\ cards'[b] = dirty_card_val
                /\ \/ CardRecords(b)' >= 1
                   \/ \E u \in Threads \ {t} :
                        pc[u] \in EnqueuePending /\ frame[u].byte = b
      ]_vars

\* Three threads have called the barrier on the same clean card, each has
\* read it before the store of another, and the card has three records.
C19_Witness ==
  /\ Cardinality(runnable) = 3
  /\ AllIdle
  /\ \E c \in Cards :
       cards0[c] = clean_card_val /\ cards[c] = dirty_card_val /\ CardRecords(c) = 3

\* The places of the card scan of invalidate on a thread that is no Java
\* thread, lines 146-154.
InvScan == {"inv_loop", "inv_store", "inv_enq"}

\* C20: invalidate on a thread that is no Java thread takes
\* Shared_DirtyCardQ_lock once, after the fence, and owns it through the
\* whole scan, at every store and every enqueue, until the scan is over;
\* while it scans, the shared dirty card queue changes by its own enqueues
\* only.  write_ref_field_post_slow does not own the lock when it reads
\* the card and stores into it.
C20_InvalidateHoldsLockAcrossScan ==
  /\ [](\A t \in NonJavaThreads :
          /\ pc[t] \in InvScan \cup {"inv_unlock"} => Shared_DirtyCardQ_lock = t
          /\ pc[t] \in {"inv_skip", "inv_lock"} => Shared_DirtyCardQ_lock # t
          /\ pc[t] = "inv_lock" => frame[t].fences = 1
          /\ pc[t] \in {"post_check", "post_store", "post_lock"} =>
               Shared_DirtyCardQ_lock # t)
  /\ [][\A t \in NonJavaThreads :
         /\ (Shared_DirtyCardQ_lock' = t /\ Shared_DirtyCardQ_lock # t) =>
              pc[t] \in {"inv_lock", "post_lock"}
         /\ (pc'[t] = "inv_lock" /\ pc[t] # "inv_lock") => pc[t] = "inv_skip"
         /\ (pc[t] \in InvScan /\ Steps(t)) => pc'[t] \in InvScan \cup {"inv_unlock"}
         /\ (pc[t] \in InvScan /\ shared_dcq' # shared_dcq) =>
              Steps(t) /\ pc[t] = "inv_enq"
         /\ (pc[t] \in InvScan /\ cards' # cards /\ Steps(t)) => pc[t] = "inv_store"
      ]_vars

\* An invalidate owns the lock, has enqueued its first card and scans on,
\* while another thread, its card stored, waits for the lock at its
\* enqueue.
C20_Witness ==
  /\ runnable = {"w1", "w2"}
  /\ pc["w1"] \in InvScan
  /\ Shared_DirtyCardQ_lock = "w1"
  /\ frame["w1"].byte > frame["w1"].first_byte
  /\ CountIn(shared_dcq, frame["w1"].first_byte) = 1
  /\ pc["w2"] = "post_lock"
  /\ cards[frame["w2"].byte] = dirty_card_val

====
